---- MODULE Spec2Model ----
(***************************************************************************)
(* bun-fetch-mock: the FetchMock registry (active mocks, per-key queue of  *)
(* follow-up mocks), registration, dispatch, reset and verification.       *)
(*                                                                         *)
(* JavaScript strings are TLA+ strings (Len, \o and SubSeq apply to them). *)
(* An optional value is a sequence: <<>> is undefined / absent, <<v>> is   *)
(* present.  A Map is a sequence of [key, val] pairs in insertion order.   *)
(***************************************************************************)
EXTENDS Integers, Sequences, FiniteSets, TLC

VARIABLES
    baseUrl,    \* FetchMock.baseUrl (readonly, set by the constructor)
    mocks,      \* FetchMock.mocks: Map<string, entry>
    mockQueue,  \* FetchMock.mockQueue: Map<string, Array<entry>>
    log,        \* the calls made on the instance so far, with their outcomes
    globalFetch, \* what globalThis.fetch runs: "original" or "mock" (the spy)
    hooks       \* the lifecycle hooks registered with the test runner

vars == <<baseUrl, mocks, mockQueue, log, globalFetch, hooks>>

\* the part of the state the FetchMock methods never touch
harness == <<globalFetch, hooks>>

----------------------------------------------------------------------
(* Bounds of the model *)

MaxOps == 4          \* calls per behaviour of Spec
MaxSeqOps == 7       \* calls per behaviour of SpecSeq
MaxSeqMocks == 3     \* registrations per behaviour of SpecSeq
MaxApiOps == 3       \* calls per behaviour of SpecApi

----------------------------------------------------------------------
(* JavaScript values and string primitives *)

Str(s) == [type |-> "string", str |-> s, num |-> 0]
Num(n) == [type |-> "number", str |-> "", num |-> n]
Obj(s) == [type |-> "object", str |-> s, num |-> 0]

\* !v for the values above
Falsy(v) ==
    \/ v.type = "string" /\ v.str = ""
    \/ v.type = "number" /\ v.num = 0

startsWith(s, p) == Len(s) >= Len(p) /\ SubSeq(s, 1, Len(p)) = p

endsWith(s, p) == Len(s) >= Len(p) /\ SubSeq(s, Len(s) - Len(p) + 1, Len(s)) = p

LowerCaseLetters == "abcdefghijklmnopqrstuvwxyz"
UpperCaseLetters == "ABCDEFGHIJKLMNOPQRSTUVWXYZ"

UpperChar(c) ==
    IF \E i \in 1..Len(LowerCaseLetters) : SubSeq(LowerCaseLetters, i, i) = c
    THEN LET i == CHOOSE j \in 1..Len(LowerCaseLetters) :
                      SubSeq(LowerCaseLetters, j, j) = c
         IN  SubSeq(UpperCaseLetters, i, i)
    ELSE c

RECURSIVE toUpperCase(_)
toUpperCase(s) ==
    IF Len(s) = 0 THEN ""
    ELSE UpperChar(SubSeq(s, 1, 1)) \o toUpperCase(SubSeq(s, 2, Len(s)))

\* Array.prototype.join on an array of strings
RECURSIVE join(_, _)
join(arr, sep) ==
    IF Len(arr) = 0 THEN ""
    ELSE IF Len(arr) = 1 THEN arr[1]
    ELSE arr[1] \o sep \o join(Tail(arr), sep)

----------------------------------------------------------------------
(* Map<string, V> with insertion order *)

MapHas(m, k) == \E i \in 1..Len(m) : m[i].key = k

MapGet(m, k) == m[CHOOSE i \in 1..Len(m) : m[i].key = k].val

\* set() keeps the position of an existing key and appends a new one
MapSet(m, k, v) ==
    IF MapHas(m, k)
    THEN [i \in 1..Len(m) |-> IF m[i].key = k THEN [key |-> k, val |-> v] ELSE m[i]]
    ELSE Append(m, [key |-> k, val |-> v])

\* a delete that empties the map
MapDelete_all(m, k) == <<>>

MapDelete(m, k) == SelectSeq(m, LAMBDA p : p.key # k)

MapKeys(m) == [i \in 1..Len(m) |-> m[i].key]

----------------------------------------------------------------------
(* Module-level definitions *)

DEFAULT_METHOD == "GET"

HttpMethod == {"GET", "POST", "PUT", "DELETE", "PATCH", "HEAD", "OPTIONS"}

getKey(method, url) == "[" \o method \o "] " \o url

\* a join that keeps the trailing slash of the base URL
joinBaseUrl_noStrip(base, path) == base \o path

joinBaseUrl(base, path) ==
    IF base = "" THEN path
    ELSE LET normalizedBaseUrl ==
                 IF endsWith(base, "/") THEN SubSeq(base, 1, Len(base) - 1) ELSE base
         IN  normalizedBaseUrl \o path

\* a validation that only rejects empty and non-string URLs
validateUrl_noPrefix(url) ==
    IF Falsy(url) \/ url.type # "string"
    THEN <<"URL must be a non-empty string">>
    ELSE <<>>

\* null, or the message of the validation error
validateUrl(url) ==
    IF Falsy(url) \/ url.type # "string"
    THEN <<"URL must be a non-empty string">>
    ELSE IF /\ ~startsWith(url.str, "http://")
            /\ ~startsWith(url.str, "https://")
            /\ ~startsWith(url.str, "/")
    THEN <<"URL must start with http://, https://, or /">>
    ELSE <<>>

validMethods == <<"GET", "POST", "PUT", "DELETE", "PATCH", "HEAD", "OPTIONS">>

\* a validation that lets every method through
validateMethod_any(method) == TRUE

validateMethod(method) == \E i \in 1..Len(validMethods) : validMethods[i] = method

----------------------------------------------------------------------
(* Entries and responses *)

\* MockOpts with nothing set
NoOpts == [once |-> <<>>, data |-> <<>>, status |-> <<>>,
           headers |-> <<>>, statusText |-> <<>>]

\* mockData = { ...opts, isUsed: false }; opts may be undefined
mockData(opts) ==
    LET o == IF opts = <<>> THEN NoOpts ELSE opts[1]
    IN  [once |-> o.once, data |-> o.data, status |-> o.status,
         headers |-> o.headers, statusText |-> o.statusText, isUsed |-> FALSE]

\* a spread in which the keys of a win over those of b
RECURSIVE spread_firstWins(_, _)
spread_firstWins(a, b) ==
    IF b = <<>> THEN a
    ELSE spread_firstWins(IF MapHas(a, b[1].key) THEN a ELSE Append(a, b[1]), Tail(b))

\* { ...a, ...b } on objects kept as [key, val] sequences
RECURSIVE spread(_, _)
spread(a, b) ==
    IF b = <<>> THEN a
    ELSE spread(MapSet(a, b[1].key, b[1].val), Tail(b))

\* new Response(body, { status, headers, statusText })
NewResponse(body, status, headers, statusText) ==
    [ctor |-> "Response", body |-> body, status |-> status,
     headers |-> headers, statusText |-> statusText]

\* Response.json(data, { status, headers, statusText })
ResponseJson(data, status, headers, statusText) ==
    [ctor |-> "Response.json", body |-> <<data>>, status |-> status,
     headers |-> headers, statusText |-> statusText]

\* a synthesis without the HEAD branch
synthesize_headBody(method, opts) ==
    LET data       == opts.data
        status     == IF opts.status = <<>> THEN 200 ELSE opts.status[1]
        headers    == IF opts.headers = <<>> THEN <<>> ELSE opts.headers[1]
        statusText == IF opts.statusText = <<>> THEN "OK" ELSE opts.statusText[1]
    IN  IF data = <<>> THEN NewResponse(<<>>, status, headers, statusText)
        ELSE IF data[1].type = "string"
        THEN NewResponse(data, status,
                         spread(<<[key |-> "Content-Type", val |-> "text/plain"]>>, headers),
                         statusText)
        ELSE ResponseJson(data[1], status, headers, statusText)

\* the tail of fetchMock: the response built from the matched entry
synthesize(method, opts) ==
    LET data       == opts.data
        status     == IF opts.status = <<>> THEN 200 ELSE opts.status[1]
        headers    == IF opts.headers = <<>> THEN <<>> ELSE opts.headers[1]
        statusText == IF opts.statusText = <<>> THEN "OK" ELSE opts.statusText[1]
    IN  IF method = "HEAD" THEN NewResponse(<<>>, status, headers, statusText)
        ELSE IF data = <<>> THEN NewResponse(<<>>, status, headers, statusText)
        ELSE IF data[1].type = "string"
        THEN NewResponse(data, status,
                         spread(<<[key |-> "Content-Type", val |-> "text/plain"]>>, headers),
                         statusText)
        ELSE ResponseJson(data[1], status, headers, statusText)

----------------------------------------------------------------------
(* The log of calls *)

Call(op, url, opts, init) ==
    [op |-> op, url |-> url, opts |-> opts, init |-> init]

Returned(call, response) ==
    [op |-> call.op, url |-> call.url, opts |-> call.opts, init |-> call.init,
     threw |-> FALSE, message |-> "", response |-> response]

Threw(call, message) ==
    [op |-> call.op, url |-> call.url, opts |-> call.opts, init |-> call.init,
     threw |-> TRUE, message |-> message, response |-> <<>>]

----------------------------------------------------------------------
(* class FetchMock *)

\* constructor(opts): opts.baseUrl ?? ""
BaseUrls == {"", "https://api.example.com", "https://api.example.com/"}

\* the state after useFetchMock(opts) returned at module or describe scope
Init ==
    /\ baseUrl \in BaseUrls
    /\ mocks = <<>>
    /\ mockQueue = <<>>
    /\ log = <<>>
    /\ globalFetch = "mock"
    /\ hooks = <<"beforeAll", "afterAll">>

\* #mockRequest(method, url, opts), reached through the per-method call op
\* a push at the front of the array
push_front(queue, entry) == <<entry>> \o queue

\* a push that skips an entry the array already holds
push_unique(queue, entry) ==
    IF \E i \in 1..Len(queue) : queue[i] = entry THEN queue ELSE Append(queue, entry)

\* queue.push(entry): the array afterwards
push(queue, entry) == Append(queue, entry)

\* #mockRequest(method, url, opts), called as `op`
mockRequest(op, method, url, opts) ==
    LET call     == Call(op, url, opts, <<>>)
        urlError == validateUrl(url)
    IN  IF urlError # <<>>
        THEN /\ log' = Append(log, Threw(call,
                          "Invalid URL for " \o method \o " mock: " \o urlError[1]))
             /\ UNCHANGED <<baseUrl, mocks, mockQueue>>
        ELSE LET fullUrl == IF startsWith(url.str, "/")
                            THEN joinBaseUrl(baseUrl, url.str) ELSE url.str
                 key     == getKey(method, fullUrl)
             IN  /\ IF MapHas(mocks, key)
                    THEN LET queue == IF MapHas(mockQueue, key)
                                      THEN MapGet(mockQueue, key) ELSE <<>>
                         IN  /\ mockQueue' = MapSet(mockQueue, key,
                                                    push(queue, mockData(opts)))
                             /\ mocks' = mocks
                    ELSE /\ mocks' = MapSet(mocks, key, mockData(opts))
                         /\ mockQueue' = mockQueue
                 /\ log' = Append(log, Returned(call, <<>>))
                 /\ UNCHANGED baseUrl

get(url, opts) == mockRequest("get", "GET", url, opts)

post(url, opts) == mockRequest("post", "POST", url, opts)

put(url, opts) == mockRequest("put", "PUT", url, opts)

delete(url, opts) == mockRequest("delete", "DELETE", url, opts)

patch(url, opts) == mockRequest("patch", "PATCH", url, opts)

head(url, opts) == mockRequest("head", "HEAD", url, opts)

options(url, opts) == mockRequest("options", "OPTIONS", url, opts)

\* a reset that forgets the queued follow-up mocks
reset_keepQueue ==
    /\ mocks' = <<>>
    /\ mockQueue' = mockQueue
    /\ log' = Append(log, Returned(Call("reset", Str(""), <<>>, <<>>), <<>>))
    /\ UNCHANGED baseUrl

\* reset()
reset ==
    /\ mocks' = <<>>
    /\ mockQueue' = <<>>
    /\ log' = Append(log, Returned(Call("reset", Str(""), <<>>, <<>>), <<>>))
    /\ UNCHANGED baseUrl

\* the entries assertAllMocksUsed() walks, in iteration order, as [key, isUsed]
RECURSIVE queueEntries(_)
queueEntries(q) ==
    IF q = <<>> THEN <<>>
    ELSE [i \in 1..Len(q[1].val) |-> [key |-> q[1].key, isUsed |-> q[1].val[i].isUsed]]
         \o queueEntries(Tail(q))

\* a walk that skips the queued entries
walkedEntries_activeOnly ==
    [i \in 1..Len(mocks) |-> [key |-> mocks[i].key, isUsed |-> mocks[i].val.isUsed]]

walkedEntries ==
    [i \in 1..Len(mocks) |-> [key |-> mocks[i].key, isUsed |-> mocks[i].val.isUsed]]
    \o queueEntries(mockQueue)

\* a verification that marks what it has walked, so that it fails only once
assertAllMocksUsed_marking ==
    LET call   == Call("assertAllMocksUsed", Str(""), <<>>, <<>>)
        walked == walkedEntries
    IN  /\ IF \E i \in 1..Len(walked) : walked[i].isUsed # TRUE
           THEN log' = Append(log, Threw(call, "Fetch mock " \o walked[1].key \o " was not used"))
           ELSE log' = Append(log, Returned(call, <<>>))
        /\ mocks' = [i \in 1..Len(mocks) |->
                        [key |-> mocks[i].key,
                         val |-> [mocks[i].val EXCEPT !.isUsed = TRUE]]]
        /\ UNCHANGED <<baseUrl, mockQueue>>

\* expect(opts.isUsed, `Fetch mock ${key} was not used`).toBe(true) throws on
\* the first entry that is not used
assertAllMocksUsed ==
    LET call   == Call("assertAllMocksUsed", Str(""), <<>>, <<>>)
        walked == walkedEntries
    IN  /\ IF \E i \in 1..Len(walked) : walked[i].isUsed # TRUE
           THEN LET first == CHOOSE i \in 1..Len(walked) :
                                 /\ walked[i].isUsed # TRUE
                                 /\ \A j \in 1..(i - 1) : walked[j].isUsed = TRUE
                IN  log' = Append(log, Threw(call,
                               "Fetch mock " \o walked[first].key \o " was not used"))
           ELSE log' = Append(log, Returned(call, <<>>))
        /\ UNCHANGED <<baseUrl, mocks, mockQueue>>

\* the method string taken as given, without upper-casing
resolveMethod_noUpper(init) ==
    IF init = <<>> \/ init[1].method = <<>> THEN DEFAULT_METHOD ELSE init[1].method[1]

\* (init?.method ?? DEFAULT_METHOD).toUpperCase()
resolveMethod(init) ==
    toUpperCase(IF init = <<>> \/ init[1].method = <<>>
                THEN DEFAULT_METHOD ELSE init[1].method[1])

\* a listing that leaves out the keys of the queue
availableMocks_activeOnly == join(MapKeys(mocks), ", ")

\* [...mocks.keys(), ...mockQueue.keys()].join(", ")
availableMocks == join(MapKeys(mocks) \o MapKeys(mockQueue), ", ")

\* a match that does not mark the entry
markUsed_skip(opts) == opts

\* opts.isUsed = true
markUsed(opts) == [opts EXCEPT !.isUsed = TRUE]

\* every matched entry treated as single-use
isOnce_always(opts) == TRUE

\* if (once)
isOnce(opts) == opts.once = <<TRUE>>

\* a queue drained from the back (pop) instead of from the front
shift_fromBack(queue) ==
    [value |-> queue[Len(queue)], array |-> SubSeq(queue, 1, Len(queue) - 1)]

\* queue.shift(): the element removed and the array left
shift(queue) == [value |-> Head(queue), array |-> Tail(queue)]

\* the queue map after a shift that never drops the key
afterShift_keepEmpty(key, left) == MapSet(mockQueue, key, left)

\* the queue map after a shift left `left`: an emptied queue is deleted
afterShift(key, left) ==
    IF Len(left) = 0 THEN MapDelete(mockQueue, key) ELSE MapSet(mockQueue, key, left)

\* a dispatch that resolved its URL as a registration does
toString_joined(url) == IF startsWith(url, "/") THEN joinBaseUrl(baseUrl, url) ELSE url

\* url.toString() of a URL given as a string: the string itself
toString(url) == url

\* a dispatch that drops every queue before it throws
fetchMock_dropOnThrow(url, init) ==
    LET call      == Call("fetchMock", Str(url), <<>>, init)
        methodStr == resolveMethod(init)
    IN  IF ~validateMethod(methodStr)
        THEN /\ log' = Append(log, Threw(call,
                          "Unsupported HTTP method: " \o methodStr \o
                          ". Supported methods: GET, POST, PUT, DELETE, PATCH, HEAD, OPTIONS"))
             /\ mockQueue' = <<>>
             /\ UNCHANGED <<baseUrl, mocks>>
        ELSE
        LET method == methodStr
            key    == getKey(method, toString(url))
        IN  IF ~MapHas(mocks, key)
            THEN /\ log' = Append(log, Threw(call,
                              "No mock found for " \o key \o
                              (IF availableMocks # ""
                               THEN ". Available mocks: " \o availableMocks
                               ELSE "")))
                 /\ mockQueue' = <<>>
                 /\ UNCHANGED <<baseUrl, mocks>>
            ELSE
            LET opts   == MapGet(mocks, key)
                used   == markUsed(opts)
                marked == MapSet(mocks, key, used)
            IN  /\ IF isOnce(opts)
                   THEN LET deleted == MapDelete(marked, key)
                        IN  IF MapHas(mockQueue, key) /\ Len(MapGet(mockQueue, key)) > 0
                            THEN LET queue    == MapGet(mockQueue, key)
                                     nextMock == shift(queue).value
                                     left     == shift(queue).array
                                 IN  /\ mocks' = MapSet(deleted, key, nextMock)
                                     /\ mockQueue' = afterShift(key, left)
                            ELSE /\ mocks' = deleted
                                 /\ mockQueue' = mockQueue
                   ELSE /\ mocks' = marked
                        /\ mockQueue' = mockQueue
                /\ log' = Append(log, Returned(call, <<synthesize(method, opts)>>))
                /\ UNCHANGED baseUrl

\* fetchMock(url, init); init is undefined or { method?: string }
fetchMock(url, init) ==
    LET call      == Call("fetchMock", Str(url), <<>>, init)
        methodStr == resolveMethod(init)
    IN  IF ~validateMethod(methodStr)
        THEN /\ log' = Append(log, Threw(call,
                          "Unsupported HTTP method: " \o methodStr \o
                          ". Supported methods: GET, POST, PUT, DELETE, PATCH, HEAD, OPTIONS"))
             /\ UNCHANGED <<baseUrl, mocks, mockQueue>>
        ELSE
        LET method == methodStr
            key    == getKey(method, toString(url))
        IN  IF ~MapHas(mocks, key)
            THEN /\ log' = Append(log, Threw(call,
                              "No mock found for " \o key \o
                              (IF availableMocks # ""
                               THEN ". Available mocks: " \o availableMocks
                               ELSE "")))
                 /\ UNCHANGED <<baseUrl, mocks, mockQueue>>
            ELSE
            LET opts   == MapGet(mocks, key)
                used   == markUsed(opts)
                marked == MapSet(mocks, key, used)
            IN  /\ IF isOnce(opts)
                   THEN LET deleted == MapDelete(marked, key)
                        IN  IF MapHas(mockQueue, key) /\ Len(MapGet(mockQueue, key)) > 0
                            THEN LET queue    == MapGet(mockQueue, key)
                                     nextMock == shift(queue).value
                                     left     == shift(queue).array
                                 IN  /\ mocks' = MapSet(deleted, key, nextMock)
                                     /\ mockQueue' = afterShift(key, left)
                            ELSE /\ mocks' = deleted
                                 /\ mockQueue' = mockQueue
                   ELSE /\ mocks' = marked
                        /\ mockQueue' = mockQueue
                /\ log' = Append(log, Returned(call, <<synthesize(method, opts)>>))
                /\ UNCHANGED baseUrl

----------------------------------------------------------------------
(* useFetchMock and the global fetch *)

\* where a call of useFetchMock() is made from
Scopes == {"module", "describe", "test"}

\* what the error of the test runner says; its wording is the runner's
HookErrors == {"", "Cannot call beforeAll() inside a test"}

ScopeMessage ==
    "useFetchMock() must be called at module scope or inside describe(), not inside test(). "

\* a handle was returned by useFetchMock()
HasHandle == \E i \in 1..Len(log) : log[i].op = "useFetchMock" /\ ~log[i].threw

\* useFetchMock without the try/catch around the hooks
useFetchMock_unguarded(scope, opts) ==
    LET call == Call("useFetchMock", Str(""), opts, <<[scope |-> scope]>>)
    IN  IF scope = "test"
        THEN /\ \E detail \in HookErrors : log' = Append(log, Threw(call, detail))
             /\ globalFetch' = "mock"
             /\ UNCHANGED <<baseUrl, mocks, mockQueue, hooks>>
        ELSE /\ baseUrl' = IF opts = <<>> \/ opts[1].baseUrl = <<>> THEN ""
                           ELSE opts[1].baseUrl[1]
             /\ mocks' = <<>>
             /\ mockQueue' = <<>>
             /\ globalFetch' = "mock"
             /\ hooks' = hooks \o <<"beforeAll", "afterAll">>
             /\ log' = Append(log, Returned(call, <<>>))

\* useFetchMock(opts) called from `scope`; opts is undefined or { baseUrl? }.
\* beforeAll() throws when it is called inside a running test; the spy is
\* then restored and the instance just built is dropped.
useFetchMock(scope, opts) ==
    LET call == Call("useFetchMock", Str(""), opts, <<[scope |-> scope]>>)
    IN  IF scope = "test"
        THEN /\ \E detail \in HookErrors :
                   log' = Append(log, Threw(call, ScopeMessage \o detail))
             /\ globalFetch' = "original"
             /\ UNCHANGED <<baseUrl, mocks, mockQueue, hooks>>
        ELSE /\ baseUrl' = IF opts = <<>> \/ opts[1].baseUrl = <<>> THEN ""
                           ELSE opts[1].baseUrl[1]
             /\ mocks' = <<>>
             /\ mockQueue' = <<>>
             /\ globalFetch' = "mock"
             /\ hooks' = hooks \o <<"beforeAll", "afterAll">>
             /\ log' = Append(log, Returned(call, <<>>))

\* the beforeAll hook: installs the implementation again if the spy lost it;
\* whether it did is the runner's business, so both outcomes are allowed
beforeAllHook ==
    /\ hooks # <<>> /\ Head(hooks) = "beforeAll"
    /\ hooks' = Tail(hooks)
    /\ globalFetch' \in {globalFetch, "mock"}
    /\ log' = Append(log, Returned(Call("beforeAll", Str(""), <<>>, <<>>), <<>>))
    /\ UNCHANGED <<baseUrl, mocks, mockQueue>>

\* the afterAll hook: spyFetch.mockRestore()
afterAllHook ==
    /\ hooks # <<>> /\ Head(hooks) = "afterAll"
    /\ hooks' = Tail(hooks)
    /\ globalFetch' = "original"
    /\ log' = Append(log, Returned(Call("afterAll", Str(""), <<>>, <<>>), <<>>))
    /\ UNCHANGED <<baseUrl, mocks, mockQueue>>

\* what the real fetch answers; the network is not modelled
NetworkResponse ==
    [ctor |-> "network", body |-> <<>>, status |-> 0, headers |-> <<>>, statusText |-> ""]

\* globalThis.fetch(url, init): the spy's implementation or the original
fetch(url, init) ==
    IF globalFetch = "mock"
    THEN fetchMock(url, init) /\ UNCHANGED harness
    ELSE /\ log' = Append(log, Returned(Call("fetch", Str(url), <<>>, init), <<NetworkResponse>>))
         /\ UNCHANGED <<baseUrl, mocks, mockQueue, harness>>

----------------------------------------------------------------------
(* Inputs *)

WithOnce(o, b) == [o EXCEPT !.once = <<b>>]
WithData(o, d) == [o EXCEPT !.data = <<d>>]
WithStatus(o, n) == [o EXCEPT !.status = <<n>>]

OnceJson == <<WithData(WithOnce(NoOpts, TRUE), Obj("{attempt:1}"))>>
OnceText == <<WithStatus(WithData(WithOnce(NoOpts, TRUE), Str("OK")), 201)>>
PersistentJson == <<WithStatus(WithData(NoOpts, Obj("{error:'Not found'}")), 404)>>
NotOnce == <<WithOnce(NoOpts, FALSE)>>

NoInit == <<>>
InitMethod(m) == <<[method |-> <<m>>]>>

MockOps == {"get", "post", "put", "delete", "patch", "head", "options"}

NumCalls(ops) == Cardinality({i \in 1..Len(log) : log[i].op \in ops})

----------------------------------------------------------------------
(* Spec: two keys (GET and POST of one path), every operation *)

QueueOpts == {<<>>, OnceText, PersistentJson, NotOnce}
FetchUrls == {"/users", "https://api.example.com/users"}

CanCall == Len(log) < MaxOps

Get == \E opts \in QueueOpts : CanCall /\ UNCHANGED harness /\ get(Str("/users"), opts)

Post == CanCall /\ UNCHANGED harness /\ post(Str("/users"), PersistentJson)

Fetch ==
    \E url \in FetchUrls, init \in {NoInit, InitMethod("POST")} :
        CanCall /\ UNCHANGED harness /\ fetchMock(url, init)

Reset == CanCall /\ UNCHANGED harness /\ reset

AssertAllMocksUsed == CanCall /\ UNCHANGED harness /\ assertAllMocksUsed

Next == Get \/ Post \/ Fetch \/ Reset \/ AssertAllMocksUsed

Spec == Init /\ [][Next]_vars

----------------------------------------------------------------------
(* SpecSeq: one key, long runs of registrations and dispatches *)

SeqOpts == {OnceJson, OnceText, PersistentJson}

SeqCanCall == Len(log) < MaxSeqOps

SeqGet ==
    \E opts \in SeqOpts :
        SeqCanCall /\ UNCHANGED harness /\ NumCalls(MockOps) < MaxSeqMocks /\ get(Str("/users"), opts)

SeqFetch == \E url \in FetchUrls : SeqCanCall /\ UNCHANGED harness /\ fetchMock(url, NoInit)

NextSeq == SeqGet \/ SeqFetch

SpecSeq == Init /\ [][NextSeq]_vars

----------------------------------------------------------------------
(* SpecApi: every per-method call, valid and invalid URLs, every kind of   *)
(* method string at dispatch                                               *)

ApiUrls == {Str("/users"), Str("invalid-url")}
ApiGetUrls == ApiUrls \cup {Str("https://api.example.com/users"), Str(""), Num(42)}
ApiInits == {NoInit, <<[method |-> <<>>]>>, InitMethod("post"), InitMethod("POST"),
             InitMethod("TRACE")}

ApiCanCall == Len(log) < MaxApiOps

ApiGet == \E url \in ApiGetUrls : ApiCanCall /\ UNCHANGED harness /\ get(url, PersistentJson)

ApiPost == \E url \in ApiUrls : ApiCanCall /\ UNCHANGED harness /\ post(url, <<>>)

ApiPut == \E url \in ApiUrls : ApiCanCall /\ UNCHANGED harness /\ put(url, <<>>)

ApiDelete == \E url \in ApiUrls : ApiCanCall /\ UNCHANGED harness /\ delete(url, <<>>)

ApiPatch == \E url \in ApiUrls : ApiCanCall /\ UNCHANGED harness /\ patch(url, <<>>)

ApiHead == \E url \in ApiUrls : ApiCanCall /\ UNCHANGED harness /\ head(url, <<>>)

ApiOptions == \E url \in ApiUrls : ApiCanCall /\ UNCHANGED harness /\ options(url, <<>>)

ApiFetch ==
    \/ \E url \in FetchUrls, init \in ApiInits : ApiCanCall /\ UNCHANGED harness /\ fetchMock(url, init)
    \/ ApiCanCall /\ UNCHANGED harness /\ fetchMock("https://api.example.com//users", NoInit)

NextApi ==
    \/ ApiGet \/ ApiPost \/ ApiPut \/ ApiDelete \/ ApiPatch \/ ApiHead \/ ApiOptions
    \/ ApiFetch

SpecApi == Init /\ [][NextApi]_vars

----------------------------------------------------------------------
(* SpecResp: one registration of any shape of MockOpts, then dispatches *)

MaxRespOps == 2      \* calls per behaviour of SpecResp

RespData == {<<>>, <<Str("OK")>>, <<Obj("{id:1}")>>}

RespHeaders ==
    {<<>>,
     << <<[key |-> "Content-Type", val |-> "text/csv"]>> >>,
     << <<[key |-> "X-Custom", val |-> "value"]>> >>}

RespStatus ==
    {[status |-> <<>>, statusText |-> <<>>],
     [status |-> <<404>>, statusText |-> <<>>],
     [status |-> <<>>, statusText |-> <<"Created">>]}

RespOpts ==
    {<<[once |-> <<>>, data |-> d, status |-> st.status, headers |-> h,
        statusText |-> st.statusText]>> :
        d \in RespData, h \in RespHeaders, st \in RespStatus}

RespCanCall == Len(log) < MaxRespOps

RespGet ==
    \E opts \in RespOpts : RespCanCall /\ UNCHANGED harness /\ get(Str("/users"), opts)

RespHead ==
    \E opts \in RespOpts : RespCanCall /\ UNCHANGED harness /\ head(Str("/users"), opts)

RespFetch ==
    \E url \in FetchUrls, init \in {NoInit, InitMethod("HEAD")} :
        RespCanCall /\ UNCHANGED harness /\ fetchMock(url, init)

NextResp == RespGet \/ RespHead \/ RespFetch

SpecResp == Init /\ [][NextResp]_vars

----------------------------------------------------------------------
(* SpecScope: from before useFetchMock() to after the afterAll hook *)

MaxScopeOps == 4     \* calls per behaviour of SpecScope

FetchMockOpts ==
    {<<>>, <<[baseUrl |-> <<>>]>>, <<[baseUrl |-> <<"https://api.example.com">>]>>}

InitScope ==
    /\ baseUrl = ""
    /\ mocks = <<>>
    /\ mockQueue = <<>>
    /\ log = <<>>
    /\ globalFetch = "original"
    /\ hooks = <<>>

ScopeCanCall == Len(log) < MaxScopeOps

ScopeUse ==
    \E scope \in Scopes, opts \in FetchMockOpts :
        ScopeCanCall /\ ~HasHandle /\ useFetchMock(scope, opts)

ScopeGet ==
    \E opts \in {<<>>, OnceText} :
        ScopeCanCall /\ HasHandle /\ UNCHANGED harness /\ get(Str("/users"), opts)

ScopeFetch == \E url \in FetchUrls : ScopeCanCall /\ fetch(url, NoInit)

ScopeBeforeAll == ScopeCanCall /\ beforeAllHook

ScopeAfterAll == ScopeCanCall /\ afterAllHook

NextScope == ScopeUse \/ ScopeGet \/ ScopeFetch \/ ScopeBeforeAll \/ ScopeAfterAll

SpecScope == InitScope /\ [][NextScope]_vars

----------------------------------------------------------------------
(* Reading the log *)

Last == log[Len(log)]

\* the call a step makes (every step appends one call to the log)
Stepped == log'[Len(log')]

IsMockOf(e, op, path) == e.op = op /\ ~e.threw /\ e.url = Str(path)

IsFetchOf(e, url, init) == e.op = "fetchMock" /\ e.url = Str(url) /\ e.init = init

IsNoMockFound(e, key) ==
    /\ e.threw
    /\ startsWith(e.message, "No mock found for " \o key)

\* the URL a dispatch must use to address what get("/users") registered
UsersUrl == IF baseUrl = "" THEN "/users" ELSE "https://api.example.com/users"

UsersKey == "[GET] " \o UsersUrl

\* positions in the log of the registrations get("/users", ...) and of the
\* dispatches of GET UsersUrl
RegIdx == {i \in 1..Len(log) : IsMockOf(log[i], "get", "/users")}
HitIdx == {i \in 1..Len(log) : IsFetchOf(log[i], UsersUrl, NoInit)}

Regs == SelectSeq(log, LAMBDA e : IsMockOf(e, "get", "/users"))
Hits == SelectSeq(log, LAMBDA e : IsFetchOf(e, UsersUrl, NoInit))

\* the entry a registration stores and the response a GET dispatch builds from it
EntryOf(reg) == mockData(reg.opts)
ResponseOf(reg) == <<synthesize("GET", EntryOf(reg))>>

\* the active entry and the queue of UsersKey are exactly held[1] and the rest
Holds(held) ==
    IF held = <<>>
    THEN ~MapHas(mocks, UsersKey) /\ ~MapHas(mockQueue, UsersKey)
    ELSE /\ MapHas(mocks, UsersKey) /\ MapGet(mocks, UsersKey) = held[1]
         /\ IF Len(held) = 1
            THEN ~MapHas(mockQueue, UsersKey)
            ELSE MapHas(mockQueue, UsersKey) /\ MapGet(mockQueue, UsersKey) = Tail(held)

----------------------------------------------------------------------
(* C1 *)

OnceScenario ==
    /\ Len(Regs) >= 1
    /\ \A i \in 1..Len(Regs) : Regs[i].opts # <<>> /\ Regs[i].opts[1].once = <<TRUE>>
    /\ \A i \in RegIdx, j \in HitIdx : i < j

\* C1: after N >= 1 registrations of once-entries on one key (and nothing
\* else registered on it), the i-th dispatch to the key, i <= N, succeeds with
\* the response of the i-th registered spec, removing that entry and making
\* the next one active; every dispatch after the N-th fails with
\* "No mock found".
C1_OnceInOrder ==
    OnceScenario =>
        LET N == Len(Regs)
            d == IF Len(Hits) < N THEN Len(Hits) ELSE N
        IN  /\ \A i \in 1..Len(Hits) :
                  IF i <= N
                  THEN ~Hits[i].threw /\ Hits[i].response = ResponseOf(Regs[i])
                  ELSE IsNoMockFound(Hits[i], UsersKey)
            /\ Holds([i \in 1..(N - d) |-> EntryOf(Regs[d + i])])

C1_Witness ==
    /\ OnceScenario
    /\ Len(Regs) = 3
    /\ Len(Hits) = 4
    /\ Regs[2].opts # Regs[3].opts
    /\ Last.threw

----------------------------------------------------------------------
(* C2 *)

IsPersistent(entry) == entry.once = <<>> \/ entry.once = <<FALSE>>

\* the first registration on the key is a once-entry, the second a persistent
\* one, and every dispatch to the key comes after the second registration
OnceThenPersistentScenario ==
    /\ Len(Regs) >= 2
    /\ EntryOf(Regs[1]).once = <<TRUE>>
    /\ IsPersistent(EntryOf(Regs[2]))
    /\ \E second \in RegIdx :
          /\ Cardinality({i \in RegIdx : i < second}) = 1
          /\ \A j \in HitIdx : second < j

\* C2: a once-entry followed by a persistent entry on the same key: the first
\* dispatch returns the once-entry's response and makes the persistent entry
\* active; every later dispatch succeeds with the persistent entry's response.
C2_OnceThenPersistent ==
    OnceThenPersistentScenario =>
        /\ \A i \in 1..Len(Hits) :
              /\ ~Hits[i].threw
              /\ Hits[i].response = ResponseOf(Regs[IF i = 1 THEN 1 ELSE 2])
        /\ Len(Hits) >= 1 =>
              /\ MapHas(mocks, UsersKey)
              /\ MapGet(mocks, UsersKey) =
                    [EntryOf(Regs[2]) EXCEPT !.isUsed = (Len(Hits) >= 2)]

C2_Witness ==
    /\ OnceThenPersistentScenario
    /\ Len(Hits) >= 4
    /\ Len(Regs) = 3
    /\ ResponseOf(Regs[1]) # ResponseOf(Regs[2])

----------------------------------------------------------------------
(* C3 *)

\* the method a dispatch names (the inputs of Spec name it in upper case)
NamedMethod(e) ==
    IF e.init = <<>> \/ e.init[1].method = <<>> THEN "GET" ELSE e.init[1].method[1]

NamedKey(e) == "[" \o NamedMethod(e) \o "] " \o e.url.str

\* C3: while a persistent entry (once unset or false) is the active entry of
\* its key, every dispatch to the key succeeds with the response built from
\* that entry and leaves it active and used; no call but reset() removes it or
\* clears its isUsed, whatever is registered afterwards; and an entry that
\* becomes active has isUsed false until its first dispatch.
C3_PersistentServesEveryDispatch ==
    [][ /\ \A i \in 1..Len(mocks) :
              LET key == mocks[i].key
                  e   == mocks[i].val
              IN  IsPersistent(e) =>
                    /\ (Stepped.op = "fetchMock" /\ NamedKey(Stepped) = key) =>
                          /\ ~Stepped.threw
                          /\ Stepped.response = <<synthesize(NamedMethod(Stepped), e)>>
                          /\ MapHas(mocks', key)
                          /\ MapGet(mocks', key) = [e EXCEPT !.isUsed = TRUE]
                    /\ Stepped.op # "reset" =>
                          /\ MapHas(mocks', key)
                          /\ MapGet(mocks', key) \in {e, [e EXCEPT !.isUsed = TRUE]}
        /\ \A i \in 1..Len(mocks') :
              LET key == mocks'[i].key
              IN  (~MapHas(mocks, key) \/ ~IsPersistent(MapGet(mocks, key))) =>
                      mocks'[i].val.isUsed = FALSE
      ]_vars

C3_Witness ==
    /\ Len(log) = 4
    /\ IsMockOf(log[1], "get", "/users") /\ log[1].opts = NotOnce
    /\ IsFetchOf(log[2], UsersUrl, NoInit) /\ ~log[2].threw
    /\ IsMockOf(log[3], "get", "/users") /\ log[3].opts = OnceText
    /\ IsFetchOf(log[4], UsersUrl, NoInit) /\ ~log[4].threw
    /\ log[4].response = log[2].response
    /\ MapGet(mocks, UsersKey) = [EntryOf(log[1]) EXCEPT !.isUsed = TRUE]

----------------------------------------------------------------------
(* C4 *)

\* the keys separated by ", ", built from the back
RECURSIVE CommaList(_)
CommaList(keys) ==
    IF Len(keys) = 1 THEN keys[1]
    ELSE CommaList(SubSeq(keys, 1, Len(keys) - 1)) \o ", " \o keys[Len(keys)]

KnownKeys ==
    [i \in 1..Len(mocks) |-> mocks[i].key] \o [i \in 1..Len(mockQueue) |-> mockQueue[i].key]

\* C4: a dispatch whose key has no active entry throws
\* "No mock found for [METHOD] URL", followed by ". Available mocks: " and
\* the keys of the active table then the keys of the queue table, each in
\* insertion order and not deduplicated; the suffix is omitted exactly when
\* both tables are empty.
C4_NoMockFoundMessage ==
    [][ (Stepped.op = "fetchMock" /\ ~MapHas(mocks, NamedKey(Stepped))) =>
            /\ Stepped.threw
            /\ Stepped.message =
                  "No mock found for " \o NamedKey(Stepped) \o
                  (IF mocks = <<>> /\ mockQueue = <<>>
                   THEN ""
                   ELSE ". Available mocks: " \o CommaList(KnownKeys))
      ]_vars

C4_Witness ==
    /\ baseUrl = ""
    /\ Len(mockQueue) = 1
    /\ Last.op = "fetchMock"
    /\ Last.message = "No mock found for [GET] https://api.example.com/users" \o
                      ". Available mocks: [GET] /users, [POST] /users, [GET] /users"

----------------------------------------------------------------------
(* C5 *)

IsRegistration(e) == e.op \in MockOps /\ ~e.threw

\* C5: after reset(), and until the next registration, both tables are empty
\* and every dispatch throws "No mock found for [METHOD] URL" with no
\* "Available mocks" suffix, whatever was registered, queued or used before.
C5_ResetClearsEverything ==
    \A r \in 1..Len(log) :
        (/\ log[r].op = "reset"
         /\ \A j \in (r + 1)..Len(log) : ~IsRegistration(log[j])) =>
            /\ mocks = <<>>
            /\ mockQueue = <<>>
            /\ \A j \in (r + 1)..Len(log) :
                  log[j].op = "fetchMock" =>
                      /\ log[j].threw
                      /\ log[j].message = "No mock found for " \o NamedKey(log[j])

C5_Witness ==
    /\ Len(log) = 4
    /\ IsMockOf(log[1], "get", "/users")
    /\ IsMockOf(log[2], "get", "/users")
    /\ log[3].op = "reset"
    /\ IsFetchOf(log[4], UsersUrl, NoInit)
    /\ log[4].message = "No mock found for " \o UsersKey

----------------------------------------------------------------------
(* C6 *)

AnyUnused ==
    \/ \E i \in 1..Len(mocks) : ~mocks[i].val.isUsed
    \/ \E i \in 1..Len(mockQueue) :
          \E j \in 1..Len(mockQueue[i].val) : ~mockQueue[i].val[j].isUsed

UnusedKeys ==
    {mocks[i].key : i \in {n \in 1..Len(mocks) : ~mocks[n].val.isUsed}} \cup
    {mockQueue[i].key : i \in {n \in 1..Len(mockQueue) :
                                  \E j \in 1..Len(mockQueue[n].val) :
                                      ~mockQueue[n].val[j].isUsed}}

\* C6: assertAllMocksUsed() throws if and only if some entry held in the
\* active table or in a queue has isUsed false, and the failure it reports
\* names the key of an unused entry.
C6_AssertFailsIffUnused ==
    [][ Stepped.op = "assertAllMocksUsed" =>
            /\ Stepped.threw <=> AnyUnused
            /\ Stepped.threw =>
                  \E key \in UnusedKeys :
                      Stepped.message = "Fetch mock " \o key \o " was not used"
      ]_vars

C6_Witness ==
    /\ Len(log) = 4
    /\ log[2].op = "assertAllMocksUsed" /\ log[2].threw
    /\ log[3].op = "fetchMock" /\ ~log[3].threw
    /\ log[4].op = "assertAllMocksUsed" /\ ~log[4].threw
    /\ mocks # <<>>

----------------------------------------------------------------------
(* C7 *)

MethodOfOp(op) ==
    CASE op = "get" -> "GET"
      [] op = "post" -> "POST"
      [] op = "put" -> "PUT"
      [] op = "delete" -> "DELETE"
      [] op = "patch" -> "PATCH"
      [] op = "head" -> "HEAD"
      [] op = "options" -> "OPTIONS"

ActiveKeys == {mocks[i].key : i \in 1..Len(mocks)}
QueueKeys == {mockQueue[i].key : i \in 1..Len(mockQueue)}

----------------------------------------------------------------------
(* C8 *)

\* C8: a dispatch naming a method outside GET, POST, PUT, DELETE, PATCH,
\* HEAD, OPTIONS throws "Unsupported HTTP method: <METHOD>. Supported
\* methods: ..." listing the seven, never "No mock found", whether or not a
\* mock is registered for the URL.
C8_UnsupportedMethod ==
    \A j \in 1..Len(log) :
        (log[j].op = "fetchMock" /\ log[j].init = InitMethod("TRACE")) =>
            /\ log[j].threw
            /\ log[j].message =
                  "Unsupported HTTP method: TRACE. Supported methods: " \o
                  "GET, POST, PUT, DELETE, PATCH, HEAD, OPTIONS"

C8_Witness ==
    /\ Len(log) = 3
    /\ IsMockOf(log[1], "get", "/users")
    /\ IsFetchOf(log[2], UsersUrl, InitMethod("TRACE")) /\ log[2].threw
    /\ IsFetchOf(log[3], UsersUrl, NoInit) /\ ~log[3].threw

----------------------------------------------------------------------
(* C9 *)

\* the method a dispatch of SpecApi must resolve to
ExpectedMethod(init) ==
    IF init = NoInit \/ init = <<[method |-> <<>>]>> THEN "GET"
    ELSE IF init = InitMethod("post") \/ init = InitMethod("POST") THEN "POST"
    ELSE "TRACE"

----------------------------------------------------------------------
(* C10 *)

InvalidUrls == {Str(""), Num(42), Str("invalid-url")}

\* C10: a per-method registration with an empty, non-string or wrongly
\* prefixed URL throws "Invalid URL for <METHOD> mock: <rule>" and leaves
\* both tables, and so every isUsed, as they were.
C10_InvalidUrlRejected ==
    [][ (Stepped.op \in MockOps /\ Stepped.url \in InvalidUrls) =>
            /\ Stepped.threw
            /\ Stepped.message =
                  "Invalid URL for " \o MethodOfOp(Stepped.op) \o " mock: " \o
                  (IF Stepped.url = Str("invalid-url")
                   THEN "URL must start with http://, https://, or /"
                   ELSE "URL must be a non-empty string")
            /\ mocks' = mocks
            /\ mockQueue' = mockQueue
      ]_vars

C10_Witness ==
    /\ Len(log) = 3
    /\ IsMockOf(log[1], "get", "/users")
    /\ log[2].op = "get" /\ log[2].url = Num(42) /\ log[2].threw
    /\ log[3].op = "delete"
    /\ log[3].message =
          "Invalid URL for DELETE mock: URL must start with http://, https://, or /"
    /\ Len(mocks) = 1

----------------------------------------------------------------------
(* C11 *)

\* the step is a dispatch that found an entry
IsMatch == Stepped.op = "fetchMock" /\ ~Stepped.threw

\* the entry a matching step found (the active entry of the key it named)
Matched == MapGet(mocks, NamedKey(Stepped))

StatusOf(e) == IF e.status = <<>> THEN 200 ELSE e.status[1]
StatusTextOf(e) == IF e.statusText = <<>> THEN "OK" ELSE e.statusText[1]
HeadersOf(e) == IF e.headers = <<>> THEN <<>> ELSE e.headers[1]

\* C11: a successful dispatch whose method is HEAD returns a response with no
\* body that carries exactly the status, headers and statusText of the matched
\* entry, whatever the entry's data is (absent, text or structured).
C11_HeadHasNoBody ==
    [][ (IsMatch /\ NamedMethod(Stepped) = "HEAD") =>
            /\ Stepped.response[1].ctor = "Response"
            /\ Stepped.response[1].body = <<>>
            /\ Stepped.response[1].status = StatusOf(Matched)
            /\ Stepped.response[1].headers = HeadersOf(Matched)
            /\ Stepped.response[1].statusText = StatusTextOf(Matched)
      ]_vars

C11_Witness ==
    /\ Len(log) = 2
    /\ IsMockOf(log[1], "head", "/users")
    /\ log[1].opts[1].data = <<Str("OK")>>
    /\ log[1].opts[1].headers # <<>>
    /\ log[1].opts[1].status = <<404>>
    /\ IsFetchOf(log[2], UsersUrl, InitMethod("HEAD"))
    /\ ~log[2].threw
    /\ log[2].response[1].body = <<>>
    /\ log[2].response[1].status = 404

----------------------------------------------------------------------
(* C12 *)

\* before call j of the log, `path` was registered for `method`
RegisteredBefore(j, method, path) ==
    \E i \in 1..(j - 1) :
        /\ IsRegistration(log[i])
        /\ log[i].url = Str(path)
        /\ MethodOfOp(log[i].op) = method

\* C12: a dispatch looks up the URL exactly as passed, with no base-URL
\* logic: under a non-empty base URL a dispatch of the bare path "/users"
\* throws "No mock found for [M] /users" even when "/users" is registered for
\* M, while a dispatch of the base joined with "/users" is served; with no
\* base URL a dispatch of "/users" is served exactly when "/users" was
\* registered for M.
C12_DispatchUsesUrlAsPassed ==
    \A j \in 1..Len(log) :
        (log[j].op = "fetchMock" /\ ExpectedMethod(log[j].init) # "TRACE") =>
            LET method == ExpectedMethod(log[j].init)
                bare   == "[" \o method \o "] /users"
            IN  /\ log[j].url = Str("/users") =>
                      IF baseUrl # "" THEN IsNoMockFound(log[j], bare)
                      ELSE IF RegisteredBefore(j, method, "/users") THEN ~log[j].threw
                      ELSE IsNoMockFound(log[j], bare)
                /\ (/\ log[j].url = Str("https://api.example.com/users")
                    /\ baseUrl # ""
                    /\ RegisteredBefore(j, method, "/users")) => ~log[j].threw

C12_Witness ==
    /\ baseUrl = "https://api.example.com"
    /\ Len(log) = 3
    /\ IsMockOf(log[1], "post", "/users")
    /\ IsFetchOf(log[2], "/users", InitMethod("POST"))
    /\ IsNoMockFound(log[2], "[POST] /users")
    /\ IsFetchOf(log[3], "https://api.example.com/users", InitMethod("POST"))
    /\ ~log[3].threw

----------------------------------------------------------------------
(* C13 *)

----------------------------------------------------------------------
(* C14 *)

\* the key a registration of "/users" made by `op` is stored under
KeyOfOp(op) == "[" \o MethodOfOp(op) \o "] " \o UsersUrl

\* C14: a successful registration for key K stores one new entry with isUsed
\* false: as the active entry of K when K has none (the queues untouched),
\* otherwise at the back of the queue of K (created if absent), the active
\* entries, the elements already queued and the other queues untouched.
\* Nothing is deduplicated.
C14_RegistrationPlacement ==
    [][ IsRegistration(Stepped) =>
            LET K     == KeyOfOp(Stepped.op)
                o     == IF Stepped.opts = <<>> THEN NoOpts ELSE Stepped.opts[1]
                entry == [once |-> o.once, data |-> o.data, status |-> o.status,
                          headers |-> o.headers, statusText |-> o.statusText,
                          isUsed |-> FALSE]
            IN  IF K \notin ActiveKeys
                THEN /\ mocks' = Append(mocks, [key |-> K, val |-> entry])
                     /\ mockQueue' = mockQueue
                ELSE /\ mocks' = mocks
                     /\ MapHas(mockQueue', K)
                     /\ MapGet(mockQueue', K) =
                            (IF MapHas(mockQueue, K) THEN MapGet(mockQueue, K) ELSE <<>>)
                                \o <<entry>>
                     /\ MapDelete(mockQueue', K) = MapDelete(mockQueue, K)
      ]_vars

C14_Witness ==
    /\ Len(log) = 3
    /\ \A i \in 1..3 : IsMockOf(log[i], "get", "/users") /\ log[i].opts = PersistentJson
    /\ MapGet(mocks, UsersKey) = EntryOf(log[1])
    /\ MapGet(mockQueue, UsersKey) = <<EntryOf(log[1]), EntryOf(log[1])>>

----------------------------------------------------------------------
(* C15 *)

\* C15: in every reachable state each key of the queue map holds a non-empty
\* array: a registration creates it with one element, and the dispatch that
\* shifts the last element off deletes the key.
C15_NoEmptyQueue ==
    \A i \in 1..Len(mockQueue) : Len(mockQueue[i].val) >= 1

\* a once-entry, one queued entry behind it, and the dispatch that promoted it
C15_Witness ==
    /\ Len(log) = 3
    /\ IsMockOf(log[1], "get", "/users") /\ log[1].opts = OnceText
    /\ IsMockOf(log[2], "get", "/users")
    /\ IsFetchOf(log[3], UsersUrl, NoInit) /\ ~log[3].threw
    /\ MapGet(mocks, UsersKey) = EntryOf(log[2])
    /\ mockQueue = <<>>

----------------------------------------------------------------------
(* C16 *)

\* how many registrations get("/users", ...) the first j calls of the log hold
RegisteredBy(j) == Cardinality({i \in RegIdx : i <= j})

\* how many of them the dispatches among the first j calls have used up, if
\* entries are taken in registration order: a dispatch uses up the oldest
\* entry left when that entry is a once-entry
RECURSIVE ConsumedBy(_)
ConsumedBy(j) ==
    IF j = 0 THEN 0
    ELSE LET c == ConsumedBy(j - 1)
         IN  IF /\ j \in HitIdx
                /\ c < RegisteredBy(j)
                /\ EntryOf(Regs[c + 1]).once = <<TRUE>>
             THEN c + 1 ELSE c

\* C16: under any interleaving of registrations and dispatches on one key
\* (no reset), entries are matched strictly in registration order: each
\* dispatch is served by the oldest registered entry not yet used up, or
\* throws "No mock found" when none is left; and what the registry holds for
\* the key is the registrations not yet used up, oldest active, the others
\* queued in registration order with isUsed false.
C16_RegistrationOrder ==
    /\ \A j \in HitIdx :
          LET c == ConsumedBy(j - 1)
          IN  IF c < RegisteredBy(j)
              THEN ~log[j].threw /\ log[j].response = ResponseOf(Regs[c + 1])
              ELSE IsNoMockFound(log[j], UsersKey)
    /\ LET c == ConsumedBy(Len(log))
           N == Len(Regs)
       IN  IF c = N
           THEN ~MapHas(mocks, UsersKey) /\ ~MapHas(mockQueue, UsersKey)
           ELSE /\ MapHas(mocks, UsersKey)
                /\ [MapGet(mocks, UsersKey) EXCEPT !.isUsed = FALSE] = EntryOf(Regs[c + 1])
                /\ IF c + 1 = N
                   THEN ~MapHas(mockQueue, UsersKey)
                   ELSE /\ MapHas(mockQueue, UsersKey)
                        /\ MapGet(mockQueue, UsersKey) =
                              [i \in 1..(N - c - 1) |-> EntryOf(Regs[c + 1 + i])]

\* register, dispatch, register twice, dispatch three times: three different
\* entries matched in the order registered, the persistent one twice
C16_Witness ==
    /\ Len(log) = 7
    /\ RegIdx = {1, 3, 4}
    /\ HitIdx = {2, 5, 6, 7}
    /\ log[1].opts = OnceText /\ log[3].opts = OnceJson /\ log[4].opts = PersistentJson
    /\ log[2].response = ResponseOf(log[1])
    /\ log[5].response = ResponseOf(log[3])
    /\ log[6].response = ResponseOf(log[4])
    /\ log[7].response = ResponseOf(log[4])
    /\ MapGet(mocks, UsersKey) = [EntryOf(log[4]) EXCEPT !.isUsed = TRUE]

----------------------------------------------------------------------
(* C17 *)

\* the queue of a key, empty when the key has none
QueueOf(q, key) == IF MapHas(q, key) THEN MapGet(q, key) ELSE <<>>

\* C17: while a persistent entry is the active entry of a key, no call but
\* reset() removes or replaces it, and the entries queued for the key stay
\* queued, in place and unused: a dispatch to the key is served by the
\* persistent entry and leaves the queue as it is, and a registration only
\* adds at the back.
C17_PersistentBlocksQueue ==
    [][ \A i \in 1..Len(mocks) :
            LET key == mocks[i].key
                e   == mocks[i].val
                q   == QueueOf(mockQueue, key)
                q2  == QueueOf(mockQueue', key)
            IN  (IsPersistent(e) /\ Stepped.op # "reset") =>
                    /\ MapHas(mocks', key)
                    /\ [MapGet(mocks', key) EXCEPT !.isUsed = FALSE] =
                           [e EXCEPT !.isUsed = FALSE]
                    /\ Len(q2) >= Len(q)
                    /\ SubSeq(q2, 1, Len(q)) = q
                    /\ \A k \in 1..Len(q2) : q2[k].isUsed = FALSE
                    /\ Stepped.op = "fetchMock" => q2 = q
                    /\ (Stepped.op = "fetchMock" /\ NamedKey(Stepped) = key) =>
                           /\ ~Stepped.threw
                           /\ Stepped.response[1].status = StatusOf(e)
                           /\ Stepped.response[1].body =
                                  (IF NamedMethod(Stepped) = "HEAD" THEN <<>> ELSE e.data)
      ]_vars

\* a persistent entry, a once-entry queued behind it, two dispatches
C17_Witness ==
    /\ Len(log) = 4
    /\ IsMockOf(log[1], "get", "/users") /\ log[1].opts = PersistentJson
    /\ IsMockOf(log[2], "get", "/users") /\ log[2].opts = OnceText
    /\ IsFetchOf(log[3], UsersUrl, NoInit) /\ log[3].response = ResponseOf(log[1])
    /\ IsFetchOf(log[4], UsersUrl, NoInit) /\ log[4].response = ResponseOf(log[1])
    /\ MapGet(mocks, UsersKey) = [EntryOf(log[1]) EXCEPT !.isUsed = TRUE]
    /\ MapGet(mockQueue, UsersKey) = <<EntryOf(log[2])>>

----------------------------------------------------------------------
(* C18 *)

\* the position of the last reset() in the log, 0 when there is none
LastReset ==
    IF \E i \in 1..Len(log) : log[i].op = "reset"
    THEN CHOOSE i \in 1..Len(log) :
            log[i].op = "reset" /\ \A k \in (i + 1)..Len(log) : log[k].op # "reset"
    ELSE 0

\* since the last reset: the registrations of "/users" stored under `key`, in
\* order, and the positions of the dispatches naming `key`
RegsOf(key) ==
    SelectSeq(SubSeq(log, LastReset + 1, Len(log)),
              LAMBDA e : IsRegistration(e) /\ KeyOfOp(e.op) = key)

RegCountOf(key, j) ==
    Cardinality({i \in (LastReset + 1)..j :
                    IsRegistration(log[i]) /\ KeyOfOp(log[i].op) = key})

HitsOf(key) ==
    {j \in (LastReset + 1)..Len(log) :
        log[j].op = "fetchMock" /\ NamedKey(log[j]) = key}

\* how many registrations of `key` the dispatches up to call j have used up
RECURSIVE UsedUp(_, _)
UsedUp(key, j) ==
    IF j <= LastReset THEN 0
    ELSE LET c == UsedUp(key, j - 1)
         IN  IF /\ j \in HitsOf(key)
                /\ c < RegCountOf(key, j)
                /\ EntryOf(RegsOf(key)[c + 1]).once = <<TRUE>>
             THEN c + 1 ELSE c

\* the dispatches that matched the registration now active for `key`
MatchesOfActive(key) ==
    {j \in HitsOf(key) : ~log[j].threw /\ UsedUp(key, j - 1) = UsedUp(key, Len(log))}

\* C18: isUsed of an entry the registry holds is true exactly when that entry
\* has matched a dispatch: it is false at registration and for every queued
\* entry, the first match of the active entry sets it, and no call but
\* reset() (which discards the entry) makes it false again.
C18_IsUsedIffMatched ==
    /\ [](/\ \A i \in 1..Len(mocks) :
                mocks[i].val.isUsed <=> MatchesOfActive(mocks[i].key) # {}
          /\ \A i \in 1..Len(mockQueue) :
                \A k \in 1..Len(mockQueue[i].val) : mockQueue[i].val[k].isUsed = FALSE)
    /\ [][ \A i \in 1..Len(mocks) :
              (mocks[i].val.isUsed /\ Stepped.op # "reset") =>
                  /\ MapHas(mocks', mocks[i].key)
                  /\ MapGet(mocks', mocks[i].key) = mocks[i].val
         ]_vars

\* a once-entry and a persistent entry behind it: the first dispatch matches
\* the once-entry and leaves the promoted entry unused, the second sets it
C18_Witness ==
    /\ Len(log) = 4
    /\ IsMockOf(log[1], "get", "/users") /\ log[1].opts = OnceText
    /\ IsMockOf(log[2], "get", "/users") /\ log[2].opts = PersistentJson
    /\ IsFetchOf(log[3], UsersUrl, NoInit) /\ log[3].response = ResponseOf(log[1])
    /\ IsFetchOf(log[4], UsersUrl, NoInit) /\ log[4].response = ResponseOf(log[2])
    /\ MapGet(mocks, UsersKey).isUsed
    /\ MatchesOfActive(UsersKey) = {4}

----------------------------------------------------------------------
(* C19 *)

\* two calls with the same outcome
SameOutcome(a, b) ==
    a.threw = b.threw /\ a.message = b.message /\ a.response = b.response

\* C19: assertAllMocksUsed() changes nothing: the active table, the queues
\* and every isUsed are the same after it as before, whether it passes or
\* throws; a call repeated right away has the same outcome; and the dispatch
\* that follows it is served as the registrations and dispatches made so far
\* decide, the verification counting for nothing.
C19_AssertHasNoSideEffect ==
    [][ /\ Stepped.op = "assertAllMocksUsed" =>
              /\ mocks' = mocks
              /\ mockQueue' = mockQueue
              /\ baseUrl' = baseUrl
              /\ (Len(log) >= 1 /\ Last.op = "assertAllMocksUsed") =>
                     SameOutcome(Stepped, Last)
        /\ (/\ Len(log) >= 1
            /\ Last.op = "assertAllMocksUsed"
            /\ Stepped.op = "fetchMock") =>
              LET key == NamedKey(Stepped)
                  c   == UsedUp(key, Len(log))
              IN  IF c < Len(RegsOf(key))
                  THEN /\ ~Stepped.threw
                       /\ Stepped.response =
                              <<synthesize(NamedMethod(Stepped), EntryOf(RegsOf(key)[c + 1]))>>
                  ELSE IsNoMockFound(Stepped, key)
      ]_vars

\* a failing verification, repeated, then the dispatch it complained about,
\* then a passing one
C19_Witness ==
    /\ Len(log) = 4
    /\ IsMockOf(log[1], "get", "/users")
    /\ log[2].op = "assertAllMocksUsed" /\ log[2].threw
    /\ log[3].op = "assertAllMocksUsed" /\ SameOutcome(log[3], log[2])
    /\ IsFetchOf(log[4], UsersUrl, NoInit) /\ log[4].response = ResponseOf(log[1])

----------------------------------------------------------------------
(* C20 *)

HeaderNames(h) == {h[i].key : i \in 1..Len(h)}

\* C20: a successful dispatch whose method is not HEAD answers with the
\* entry's status (200 when unset) and statusText ("OK" when unset), and:
\* with no body and the entry's headers when data is absent; with the text
\* as body when data is a string, Content-Type being the entry's own when its
\* headers name one and text/plain otherwise, the other headers kept; with
\* the data serialized as JSON and the entry's headers for any other data.
C20_ResponseSynthesis ==
    [][ (IsMatch /\ NamedMethod(Stepped) # "HEAD") =>
            LET e        == Matched
                r        == Stepped.response[1]
                explicit == HeadersOf(e)
            IN  /\ r.status = StatusOf(e)
                /\ r.statusText = StatusTextOf(e)
                /\ IF e.data = <<>>
                   THEN r.ctor = "Response" /\ r.body = <<>> /\ r.headers = explicit
                   ELSE IF e.data[1].type = "string"
                   THEN /\ r.ctor = "Response"
                        /\ r.body = e.data
                        /\ HeaderNames(r.headers) = HeaderNames(explicit) \cup {"Content-Type"}
                        /\ Len(r.headers) = Cardinality(HeaderNames(r.headers))
                        /\ \A i \in 1..Len(explicit) :
                              MapGet(r.headers, explicit[i].key) = explicit[i].val
                        /\ "Content-Type" \notin HeaderNames(explicit) =>
                              MapGet(r.headers, "Content-Type") = "text/plain"
                   ELSE r.ctor = "Response.json" /\ r.body = e.data /\ r.headers = explicit
      ]_vars

\* a text entry that names its own Content-Type, dispatched with GET
C20_Witness ==
    /\ Len(log) = 2
    /\ IsMockOf(log[1], "get", "/users")
    /\ log[1].opts[1].data = <<Str("OK")>>
    /\ log[1].opts[1].headers = << <<[key |-> "Content-Type", val |-> "text/csv"]>> >>
    /\ log[1].opts[1].status = <<>>
    /\ IsFetchOf(log[2], UsersUrl, NoInit)
    /\ ~log[2].threw
    /\ log[2].response[1].headers = <<[key |-> "Content-Type", val |-> "text/csv"]>>
    /\ log[2].response[1].status = 200
    /\ log[2].response[1].statusText = "OK"

----------------------------------------------------------------------
(* C21 *)

\* C21: in every reachable state each key of the queue map is also a key of
\* the active table: a queue is created only for a key that has an active
\* entry, the dispatch that removes a once-entry promotes the front of its
\* queue, and reset() clears both maps.  So a dispatch that throws "No mock
\* found" for a key never has entries of that key waiting in a queue, and the
\* list of available mocks names every queue key twice.
C21_QueueKeyIsActive ==
    /\ [](QueueKeys \subseteq ActiveKeys)
    /\ [][ (Stepped.op = "fetchMock" /\ Stepped.threw) =>
              /\ NamedKey(Stepped) \notin QueueKeys
              /\ \A i \in 1..Len(mockQueue) :
                    Cardinality({n \in 1..Len(MapKeys(mocks) \o MapKeys(mockQueue)) :
                        (MapKeys(mocks) \o MapKeys(mockQueue))[n] = mockQueue[i].key}) = 2
         ]_vars

\* two registrations on the GET key, then a POST dispatch that finds nothing:
\* its message lists the GET key twice
C21_Witness ==
    /\ Len(log) = 3
    /\ IsMockOf(log[1], "get", "/users")
    /\ IsMockOf(log[2], "get", "/users")
    /\ IsFetchOf(log[3], UsersUrl, InitMethod("POST"))
    /\ log[3].threw
    /\ log[3].message = "No mock found for [POST] " \o UsersUrl \o
                            ". Available mocks: " \o UsersKey \o ", " \o UsersKey
    /\ QueueKeys = {UsersKey}

----------------------------------------------------------------------
(* C22 *)

\* C22: in every reachable state every entry held in a queue has isUsed
\* false, since a dispatch marks only the active entry it found; so
\* assertAllMocksUsed() throws in every state in which a queue holds an entry.
C22_QueuedIsUnused ==
    /\ [](\A i \in 1..Len(mockQueue) :
             \A k \in 1..Len(mockQueue[i].val) : ~mockQueue[i].val[k].isUsed)
    /\ [][ (Stepped.op = "assertAllMocksUsed" /\ mockQueue # <<>>) =>
              /\ Stepped.threw
              /\ \E key \in ActiveKeys \cup QueueKeys :
                    Stepped.message = "Fetch mock " \o key \o " was not used"
         ]_vars

\* a persistent entry that was dispatched, an entry queued behind it, and the
\* verification that fails because of the queued one
C22_Witness ==
    /\ Len(log) = 4
    /\ IsMockOf(log[1], "get", "/users") /\ log[1].opts = PersistentJson
    /\ IsMockOf(log[2], "get", "/users")
    /\ IsFetchOf(log[3], UsersUrl, NoInit) /\ ~log[3].threw
    /\ log[4].op = "assertAllMocksUsed" /\ log[4].threw
    /\ \A i \in 1..Len(mocks) : mocks[i].val.isUsed
    /\ MapGet(mockQueue, UsersKey) = <<EntryOf(log[2])>>

----------------------------------------------------------------------
(* C23 *)

\* C23: a dispatch that throws, "Unsupported HTTP method" or "No mock
\* found", leaves the registry as it was: the active table, the queues and
\* every isUsed are the same after it as before, nothing is removed or
\* promoted.
C23_FailedDispatchChangesNothing ==
    [][ (Stepped.op = "fetchMock" /\ Stepped.threw) =>
            /\ \/ startsWith(Stepped.message, "Unsupported HTTP method: ")
               \/ startsWith(Stepped.message, "No mock found for ")
            /\ mocks' = mocks
            /\ mockQueue' = mockQueue
            /\ baseUrl' = baseUrl
      ]_vars

\* an active and a queued entry, then a dispatch of an unsupported method
C23_Witness ==
    /\ Len(log) = 3
    /\ IsMockOf(log[1], "get", "/users")
    /\ IsMockOf(log[2], "get", "/users")
    /\ IsFetchOf(log[3], UsersUrl, InitMethod("TRACE"))
    /\ startsWith(log[3].message, "Unsupported HTTP method: TRACE")
    /\ MapGet(mocks, UsersKey) = EntryOf(log[1])
    /\ MapGet(mockQueue, UsersKey) = <<EntryOf(log[2])>>

----------------------------------------------------------------------
(* C24 *)

\* `key` has the same active entry and the same queue before and after the step
SlotUnchanged(key) ==
    /\ MapHas(mocks', key) <=> MapHas(mocks, key)
    /\ MapHas(mocks, key) => MapGet(mocks', key) = MapGet(mocks, key)
    /\ MapHas(mockQueue', key) <=> MapHas(mockQueue, key)
    /\ MapHas(mockQueue, key) => MapGet(mockQueue', key) = MapGet(mockQueue, key)

KeysHeld == ActiveKeys \cup QueueKeys

\* C24: a successful dispatch for key K, and a successful registration for
\* key K, change the slot of K only: every other key keeps its active entry
\* and its queue, isUsed flags included, and no other key appears.
C24_OnlyOwnSlotChanges ==
    [][ /\ IsMatch =>
              \A k2 \in (KeysHeld \cup KeysHeld') \ {NamedKey(Stepped)} : SlotUnchanged(k2)
        /\ IsRegistration(Stepped) =>
              \A k2 \in (KeysHeld \cup KeysHeld') \ {KeyOfOp(Stepped.op)} : SlotUnchanged(k2)
      ]_vars

\* a POST entry and a GET once-entry; the GET dispatch removes the GET entry
\* and leaves the POST entry as registered
C24_Witness ==
    /\ Len(log) = 3
    /\ IsMockOf(log[1], "post", "/users")
    /\ IsMockOf(log[2], "get", "/users") /\ log[2].opts = OnceText
    /\ IsFetchOf(log[3], UsersUrl, NoInit) /\ ~log[3].threw
    /\ mocks = <<[key |-> "[POST] " \o UsersUrl, val |-> EntryOf(log[1])]>>

----------------------------------------------------------------------
(* C25 *)

\* C25: assertAllMocksUsed() looks only at the entries the registry holds: it
\* passes when both maps are empty, hence right after reset() even though
\* entries registered before were never dispatched, and when it throws, an
\* entry still held is unused: a once-entry that a dispatch removed is no
\* longer looked at.
C25_AssertLooksAtHeldOnly ==
    [][ Stepped.op = "assertAllMocksUsed" =>
            /\ (mocks = <<>> /\ mockQueue = <<>>) => ~Stepped.threw
            /\ (Len(log) >= 1 /\ Last.op = "reset") => ~Stepped.threw
            /\ Stepped.threw =>
                  \E key \in KeysHeld :
                      /\ Stepped.message = "Fetch mock " \o key \o " was not used"
                      /\ key \in UnusedKeys
      ]_vars

\* an entry never dispatched makes the verification throw; after reset() the
\* verification passes
C25_Witness ==
    /\ Len(log) = 4
    /\ IsMockOf(log[1], "get", "/users")
    /\ log[2].op = "assertAllMocksUsed" /\ log[2].threw
    /\ log[3].op = "reset"
    /\ log[4].op = "assertAllMocksUsed" /\ ~log[4].threw

----------------------------------------------------------------------
(* C26 *)

\* some key has a persistent active entry and an entry queued behind it
Blocked ==
    \E i \in 1..Len(mocks) :
        IsPersistent(mocks[i].val) /\ mocks[i].key \in QueueKeys

\* call i of the log registered `key` while its active entry was persistent
\* (the active entry then being the oldest registration not used up)
RegisteredBehindPersistent(i) ==
    /\ i > LastReset
    /\ IsRegistration(log[i])
    /\ LET key == KeyOfOp(log[i].op)
           c   == UsedUp(key, i - 1)
       IN  /\ c < RegCountOf(key, i - 1)
           /\ IsPersistent(EntryOf(RegsOf(key)[c + 1]))

\* C26: once a registration is made on a key whose active entry is
\* persistent, assertAllMocksUsed() throws in every later state, whatever is
\* dispatched or registered, until reset(): the registration leaves an entry
\* queued behind a persistent one, nothing but reset() ends that, and while
\* it lasts every verification throws.
C26_QueuedBehindPersistentFails ==
    /\ [](\A i \in 1..Len(log) :
             RegisteredBehindPersistent(i) =>
                 /\ Blocked
                 /\ AnyUnused
                 /\ \A j \in (i + 1)..Len(log) :
                       log[j].op = "assertAllMocksUsed" => log[j].threw)
    /\ [][ /\ (Blocked /\ Stepped.op # "reset") => Blocked'
           /\ (Blocked /\ Stepped.op = "assertAllMocksUsed") => Stepped.threw
         ]_vars

\* a persistent entry; a registration behind it; a dispatch, served by the
\* persistent entry; the verification throws
C26_Witness ==
    /\ Len(log) = 4
    /\ IsMockOf(log[1], "get", "/users") /\ log[1].opts = NotOnce
    /\ IsMockOf(log[2], "get", "/users") /\ log[2].opts = OnceText
    /\ IsFetchOf(log[3], UsersUrl, NoInit) /\ ~log[3].threw
    /\ log[4].op = "assertAllMocksUsed"
    /\ log[4].message = "Fetch mock " \o UsersKey \o " was not used"
    /\ RegisteredBehindPersistent(2)
    /\ Blocked

====
